---- MODULE Spec2Model ----
(***************************************************************************)
(* Model of the tinypg binding diagnostics: src/src/util.ts (call-site     *)
(* locator, argument extractor, file resolver, reconciliation) and         *)
(* src/src/diagnostics.ts (analysis passes, diagnostic formatting and      *)
(* publishing into the two diagnostic collections).                        *)
(*                                                                         *)
(* A document is the sequence of its call expressions in pre-order.  A     *)
(* nullable TypeScript value  T | null  is a sequence of length at most 1. *)
(* Strings whose characters matter (dotted keys, search paths) are         *)
(* sequences of one-character strings.                                     *)
(***************************************************************************)
EXTENDS Integers, Sequences, FiniteSets, TLC

VARIABLES
    \* ---- one call site taken through extraction and reconciliation ----
    argument1,           \* the node given as arguments[1] of the call
    sql_source,          \* the SQL text of the call's target, Null if unresolved
    user_parameters,     \* collectUserParams' result (Null before it ran)
    extra_check,         \* checkForExtraProperties' result
    missing_check,       \* checkForMissingProperties' result
    call_diagnostics,    \* the diagnostics formatted for the call site
    unit_pc,             \* position of the single-call pipeline
    \* ---- the analysis passes over one document ----
    languageId,          \* document.languageId
    text,                \* document.getText(): the calls of the current text
    workspace,           \* the .sql files present in the workspace
    passes,              \* the missingSqlFileDiagnostics passes in flight
    query_runs,          \* outcome of each runQueryDiagnostics call
    sql_diagnostics,     \* entry of the document in collection 'tinypg-sql'
    query_diagnostics,   \* entry of the document in collection 'tinypg-query'
    \* ---- a second document analysed by the same passes ----
    other_text,          \* getText() of the second document
    other_run,           \* outcome of the last runDiagnostics over it
    other_sql_diagnostics,    \* its entry in collection 'tinypg-sql'
    other_query_diagnostics,  \* its entry in collection 'tinypg-query'
    \* ---- the call-site locator over a syntax tree ----
    source_file,         \* the tree handed to findAllTinyCalls
    target_name,         \* the callee name searched for (call_name)
    matching_expressions,     \* the nodes it returned (Null before it ran)
    locator_pc,          \* "ready", "returned" or "threw"
    \* ---- the event handlers of activate (extension.ts) ----
    invalid_tiny_file_parameters,   \* entry in 'tinypg-invalid-sql-params'
    invalid_tiny_query_parameters,  \* entry in 'tinypg-invalid-query-params'
    missing_tiny_files,  \* entry of the document in 'tinypg-missing-files'
    event                \* the last event handled and how its handler ended

unit_vars == <<argument1, sql_source, user_parameters, extra_check,
               missing_check, call_diagnostics, unit_pc>>
pass_vars == <<languageId, text, workspace, passes, query_runs, sql_diagnostics,
               query_diagnostics>>
other_vars == <<other_text, other_run, other_sql_diagnostics,
                other_query_diagnostics>>
locator_vars == <<source_file, target_name, matching_expressions, locator_pc>>
trigger_vars == <<invalid_tiny_file_parameters, invalid_tiny_query_parameters,
                  missing_tiny_files, event>>
outside_passes == <<unit_vars, other_vars, locator_vars, trigger_vars>>
outside_unit == <<pass_vars, other_vars, locator_vars, trigger_vars>>
vars == <<argument1, sql_source, user_parameters, extra_check,
          missing_check, call_diagnostics, unit_pc, languageId, text, workspace,
          passes,
          query_runs, sql_diagnostics, query_diagnostics,
          other_text, other_run, other_sql_diagnostics,
          other_query_diagnostics,
          source_file, target_name, matching_expressions, locator_pc,
          invalid_tiny_file_parameters, invalid_tiny_query_parameters,
          missing_tiny_files, event>>

----------------------------------------------------------------------------
(* Bounds *)

MaxProps == 2       \* properties in an enumerated object literal
MaxParams == 2      \* parameter occurrences in an enumerated SQL text
MaxCalls == 2       \* call expressions in an enumerated document
MaxRaceCalls == 1   \* call expressions per text when two passes race

----------------------------------------------------------------------------
(* Generic helpers *)

Null == <<>>
Some(x) == <<x>>
isNil(v) == v = Null
Value(v) == v[1]

Range(s) == {s[k] : k \in 1..Len(s)}

SeqsUpTo(S, n) == UNION {[1..k -> S] : k \in 0..n}

\* Array.prototype.filter
RECURSIVE Filter(_, _)
Filter(s, keep) ==
    IF s = <<>> THEN <<>>
    ELSE IF Head(s) \in keep THEN <<Head(s)>> \o Filter(Tail(s), keep)
         ELSE Filter(Tail(s), keep)

----------------------------------------------------------------------------
(* Syntax tree nodes (typescript) *)

ParamNames == {"id", "name", "ID", "constructor"}

PropertyNode(kind, name_kind, name_text) ==
    [kind |-> kind, name_kind |-> name_kind, text |-> name_text]

\* { id: 1 }, { id }, { ...params }, { [k]: v }, { run() {} }
ObjectLiteralElements ==
    {PropertyNode("PropertyAssignment", "Identifier", n) : n \in ParamNames}
    \cup {PropertyNode("ShorthandPropertyAssignment", "Identifier", "id"),
          PropertyNode("SpreadAssignment", "None", "...params"),
          PropertyNode("PropertyAssignment", "ComputedPropertyName", "[k]"),
          PropertyNode("MethodDeclaration", "Identifier", "run")}

ArgNode(kind, txt, properties) ==
    [kind |-> kind, text |-> txt, properties |-> properties]

ObjectLiteral(properties) == ArgNode("ObjectLiteralExpression", <<>>, properties)
StringLiteral(txt) == ArgNode("StringLiteral", txt, <<>>)
NoSubstitutionTemplate(txt) == ArgNode("NoSubstitutionTemplateLiteral", txt, <<>>)
TemplateExpression == ArgNode("TemplateExpression", <<>>, <<>>)
Identifier == ArgNode("Identifier", <<>>, <<>>)

\* a node has a  properties  member only when it is an object literal
HasProperties(node) == node.kind = "ObjectLiteralExpression"

CallExpression(name, arguments) == [name |-> name, arguments |-> arguments]

\* call_expression.arguments[j], j counted from 0
Argument(call_expression, j) == call_expression.arguments[j + 1]

\* new vscode.Range(positionAt(node.pos), positionAt(node.end)) of
\* arguments[j] of the i-th call expression of the document
ArgRange(i, j) == [call |-> i, arg |-> j]

----------------------------------------------------------------------------
(* tinypg-parser *)

Unparsable == <<"<malformed>">>

parseSqlThrows(sql) == sql = Unparsable

RECURSIVE Distinct(_, _)
Distinct(s, seen) ==
    IF s = <<>> THEN <<>>
    ELSE IF Head(s) \in seen THEN Distinct(Tail(s), seen)
         ELSE <<Head(s)>> \o Distinct(Tail(s), seen \cup {Head(s)})

\* the named parameters of the text, first occurrence first
parseSql(sql) ==
    LET names == Distinct(sql, {})
    IN  [mapping |-> [k \in 1..Len(names) |-> [name |-> names[k]]]]

MappingNames(parse_result) ==
    [k \in 1..Len(parse_result.mapping) |-> parse_result.mapping[k].name]

----------------------------------------------------------------------------
(* lodash keyBy: a plain object keyed by the values; a lookup of a key the *)
(* object does not own falls through to Object.prototype                   *)

ObjectPrototypeKeys ==
    {"constructor", "toString", "toLocaleString", "valueOf", "hasOwnProperty",
     "isPrototypeOf", "propertyIsEnumerable", "__proto__"}

keyBy(values) == [own |-> Range(values)]

Lookup(object, key) ==
    IF key \in object.own THEN Some(key)
    ELSE IF key \in ObjectPrototypeKeys THEN Some("[inherited]")
    ELSE Null

----------------------------------------------------------------------------
(* Argument extractor and reconciliation (util.ts) *)

AssignmentKinds == {"PropertyAssignment", "ShorthandPropertyAssignment"}

collectUserParams(range, object_literal_exp) ==
    LET assigned_object_properties ==
            Filter(object_literal_exp.properties,
                   {x \in Range(object_literal_exp.properties) :
                        x.kind \in AssignmentKinds})
        property_names ==
            [k \in 1..Len(assigned_object_properties) |->
                assigned_object_properties[k].text]
    IN  [property_names |-> property_names,
         range |-> range,
         all_property_assignment |->
            Len(property_names) = Len(object_literal_exp.properties)]

\* checkForExtraProperties without its guard on an unresolved parse result:
\* the expected list of an unresolved target is taken to be empty
checkForExtraProperties_unguarded(parse_result, user_params) ==
    IF isNil(user_params) THEN Null
    ELSE LET names == Value(user_params).property_names
             expected == IF isNil(parse_result) THEN <<>>
                         ELSE MappingNames(Value(parse_result))
         IN  Some([user_parameters |-> Value(user_params),
                   extra_properties |->
                      Filter(names, {p \in Range(names) :
                                        isNil(Lookup(keyBy(expected), p))})])

checkForExtraProperties(parse_result, user_params) ==
    IF isNil(user_params) \/ isNil(parse_result) THEN Null
    ELSE LET param_keys == keyBy(MappingNames(Value(parse_result)))
             names == Value(user_params).property_names
         IN  Some([user_parameters |-> Value(user_params),
                   extra_properties |->
                      Filter(names, {p \in Range(names) :
                                        isNil(Lookup(param_keys, p))})])

checkForMissingProperties(parse_result, user_params) ==
    IF isNil(user_params) \/ isNil(parse_result) THEN Null
    ELSE LET property_name_lookup == keyBy(Value(user_params).property_names)
             required_properties == MappingNames(Value(parse_result))
         IN  Some([user_parameters |-> Value(user_params),
                   missing_properties |->
                      Filter(required_properties,
                             {p \in Range(required_properties) :
                                 isNil(Lookup(property_name_lookup, p))})])

----------------------------------------------------------------------------
(* Diagnostic formatter (diagnostics.ts) *)

Diagnostic(range, message, severity) ==
    [range |-> range, message |-> message, severity |-> severity]

\* Message with the plural noun whatever the number of names
Message_plural(finding, names, target) ==
    [finding |-> finding, noun |-> "parameters", names |-> names,
     target |-> target]

Message(finding, names, target) ==
    [finding |-> finding,
     noun |-> IF Len(names) = 1 THEN "parameter" ELSE "parameters",
     names |-> names,
     target |-> target]

\* extraPropertyDiagnostics without its guard on the empty list
extraPropertyDiagnostics_unconditional(user_params, extra_properties, name) ==
    <<Diagnostic(user_params.range,
                 Message("Unused", extra_properties, name), "Warning")>>

extraPropertyDiagnostics(user_params, extra_properties, name) ==
    IF extra_properties = <<>> THEN <<>>
    ELSE <<Diagnostic(user_params.range,
                      Message("Unused", extra_properties, name), "Warning")>>

\* missingPropertyDiagnostics reporting at the severity of the unused finding
missingPropertyDiagnostics_asWarning(user_params, missing_properties, name) ==
    IF missing_properties = <<>> THEN <<>>
    ELSE <<Diagnostic(user_params.range,
                      Message("Missing", missing_properties, name), "Warning")>>

missingPropertyDiagnostics(user_params, missing_properties, name) ==
    IF missing_properties = <<>> THEN <<>>
    ELSE <<Diagnostic(user_params.range,
                      Message("Missing", missing_properties, name), "Error")>>

NotFoundMessage(key) ==
    [finding |-> "SQL file not found", noun |-> "file", names |-> <<>>,
     target |-> key]

QueryTarget == <<"sql query">>

----------------------------------------------------------------------------
(* One call site: extraction, reconciliation, formatting *)

getObjectLiteralProperties(range, node) ==
    IF node.kind # "ObjectLiteralExpression" THEN Null
    ELSE Some(collectUserParams(range, node))

UnitKey == <<"a", ".", "b">>

UnitArguments ==
    {ObjectLiteral(ps) : ps \in SeqsUpTo(ObjectLiteralElements, MaxProps)}
    \cup {Identifier}

UnitSources ==
    {Null} \cup {Some(t) : t \in SeqsUpTo(ParamNames, MaxParams)}

UnitParseResult ==
    IF isNil(sql_source) THEN Null ELSE Some(parseSql(Value(sql_source)))

UnitInit ==
    /\ argument1 \in UnitArguments
    /\ sql_source \in UnitSources
    /\ user_parameters = Null
    /\ extra_check = Null
    /\ missing_check = Null
    /\ call_diagnostics = <<>>
    /\ unit_pc = "located"

Extract ==
    /\ unit_pc = "located"
    /\ user_parameters' = getObjectLiteralProperties(ArgRange(1, 1), argument1)
    /\ unit_pc' = "extracted"
    /\ UNCHANGED <<argument1, sql_source, extra_check, missing_check,
                   call_diagnostics>>

Reconcile ==
    /\ unit_pc = "extracted"
    /\ extra_check' = checkForExtraProperties(UnitParseResult, user_parameters)
    /\ missing_check' =
            checkForMissingProperties(UnitParseResult, user_parameters)
    /\ unit_pc' = "reconciled"
    /\ UNCHANGED <<argument1, sql_source, user_parameters, call_diagnostics>>

Format ==
    /\ unit_pc = "reconciled"
    /\ call_diagnostics' =
            (IF isNil(missing_check) THEN <<>>
             ELSE missingPropertyDiagnostics(
                      Value(missing_check).user_parameters,
                      Value(missing_check).missing_properties, UnitKey))
            \o
            (IF isNil(extra_check) THEN <<>>
             ELSE extraPropertyDiagnostics(
                      Value(extra_check).user_parameters,
                      Value(extra_check).extra_properties, UnitKey))
            \o
            (IF isNil(sql_source)
             THEN <<Diagnostic(ArgRange(1, 0), NotFoundMessage(UnitKey),
                               "Error")>>
             ELSE <<>>)
    /\ unit_pc' = "done"
    /\ UNCHANGED <<argument1, sql_source, user_parameters, extra_check,
                   missing_check>>

----------------------------------------------------------------------------
(* File resolver (util.ts findTinySqlFile, vscode.workspace.findFiles) *)

\* String.prototype.replace with a string pattern: the first occurrence only
RECURSIVE ReplaceFirst(_, _, _)
ReplaceFirst(s, from, to) ==
    IF s = <<>> THEN <<>>
    ELSE IF Head(s) = from THEN <<to>> \o Tail(s)
         ELSE <<Head(s)>> \o ReplaceFirst(Tail(s), from, to)

\* String.prototype.replace with a global pattern: every occurrence
RECURSIVE ReplaceAll(_, _, _)
ReplaceAll(s, from, to) ==
    IF s = <<>> THEN <<>>
    ELSE <<IF Head(s) = from THEN to ELSE Head(s)>>
         \o ReplaceAll(Tail(s), from, to)

SearchPath(sql_file_key) ==
    <<"**/">> \o ReplaceFirst(sql_file_key, ".", "/") \o <<".sql">>

ExcludePattern == <<"**/", "node_modules", "/", "**">>

SrcAB == <<"src", "/", "a", "/", "b", ".sql">>
ABC == <<"a", "/", "b", "/", "c", ".sql">>
ABdotC == <<"a", "/", "b", ".", "c", ".sql">>
ModulesAB == <<"node_modules", "/", "a", "/", "b", ".sql">>

WorkspaceFiles == {SrcAB, ABC, ABdotC, ModulesAB}

\* the text of the document openTextDocument returns for the file
ContentOf(file) ==
    CASE file = SrcAB -> <<"id">>
      [] file = ABC -> <<"id", "name">>
      [] file = ABdotC -> Unparsable
      [] OTHER -> <<>>

\* the glob  **/<body>  matches the body at any directory depth
GlobMatches(pattern, file) ==
    LET body == Tail(pattern)
        n == Len(file) - Len(body)
    IN  \/ file = body
        \/ /\ n > 0
           /\ file[n] = "/"
           /\ SubSeq(file, n + 1, Len(file)) = body

Excluded(exclude, file) == exclude[2] \in Range(file)

findFiles(include, exclude, files) ==
    {f \in files : GlobMatches(include, f) /\ ~Excluded(exclude, f)}

----------------------------------------------------------------------------
(* Call-site locator (util.ts findAllTinyCalls) *)

LiteralKinds == {"StringLiteral", "NoSubstitutionTemplateLiteral"}

\* the calls at which  call_expression.arguments[0].kind  reads a member
\* of undefined: the callee is named call_name and there is no argument
LocatorFaults(call_name, doc) ==
    {i \in 1..Len(doc) : doc[i].name = call_name /\ doc[i].arguments = <<>>}

RECURSIVE AscendingFrom(_, _, _)
AscendingFrom(i, n, keep) ==
    IF i > n THEN <<>>
    ELSE IF i \in keep THEN <<i>> \o AscendingFrom(i + 1, n, keep)
         ELSE AscendingFrom(i + 1, n, keep)

\* positions, in traversal order, of the matching call expressions
findAllTinyCalls(call_name, doc) ==
    AscendingFrom(1, Len(doc),
        {i \in 1..Len(doc) :
            /\ doc[i].name = call_name
            /\ doc[i].arguments # <<>>
            /\ Argument(doc[i], 0).kind \in LiteralKinds})

Min(S) == CHOOSE x \in S : \A y \in S : x <= y

Error(type, call) == Some([type |-> type, call |-> call])

----------------------------------------------------------------------------
(* Reconciliation over the located calls (diagnostics.ts) *)

RECURSIVE ExtraDiagnosticsOf(_)
ExtraDiagnosticsOf(entries) ==
    IF entries = <<>> THEN <<>>
    ELSE LET e == Head(entries)
             check == checkForExtraProperties(e.parse_result, e.user_parameters)
         IN  (IF isNil(check) THEN <<>>
              ELSE extraPropertyDiagnostics(Value(check).user_parameters,
                       Value(check).extra_properties, e.name))
             \o ExtraDiagnosticsOf(Tail(entries))

RECURSIVE MissingDiagnosticsOf(_)
MissingDiagnosticsOf(entries) ==
    IF entries = <<>> THEN <<>>
    ELSE LET e == Head(entries)
             check == checkForMissingProperties(e.parse_result, e.user_parameters)
         IN  (IF isNil(check) THEN <<>>
              ELSE missingPropertyDiagnostics(Value(check).user_parameters,
                       Value(check).missing_properties, e.name))
             \o MissingDiagnosticsOf(Tail(entries))

\* _.groupBy(missing_files, x => x.key) flattened group by group
RECURSIVE MissingFileDiagnostics(_, _)
MissingFileDiagnostics(keys, missing_files) ==
    IF keys = <<>> THEN <<>>
    ELSE LET key == Head(keys)
             missing == Filter(missing_files,
                               {m \in Range(missing_files) : m.key = key})
         IN  [k \in 1..Len(missing) |->
                 Diagnostic(missing[k].range, NotFoundMessage(key), "Error")]
             \o MissingFileDiagnostics(Tail(keys), missing_files)

\* checkForSqlBindings once collectTinyCallDetails has resolved to tiny_calls
SqlBindingDiagnostics(tiny_calls) ==
    LET entries ==
            [k \in 1..Len(tiny_calls) |->
                [parse_result |-> tiny_calls[k].sql_file.parse_result,
                 user_parameters |-> tiny_calls[k].user_parameters,
                 name |-> tiny_calls[k].sql_call_key]]
        unresolved ==
            Filter(tiny_calls,
                   {x \in Range(tiny_calls) : isNil(x.sql_file.uri)})
        missing_files ==
            [k \in 1..Len(unresolved) |->
                [range |-> unresolved[k].sql_call_range,
                 key |-> unresolved[k].sql_call_key,
                 file |-> unresolved[k].sql_file]]
        keys == Distinct([k \in 1..Len(missing_files) |-> missing_files[k].key],
                         {})
    IN  MissingDiagnosticsOf(entries) \o ExtraDiagnosticsOf(entries)
        \o MissingFileDiagnostics(keys, missing_files)

----------------------------------------------------------------------------
(* collectTinyCallDetails: one slot of the Promise.all per located call *)

NoFile == [uri |-> Null, parse_result |-> Null]

Slot(i, state, key, path, user_params, sql_file) ==
    [call |-> i, state |-> state, sql_call_key |-> key,
     sql_call_range |-> ArgRange(i, 0), path_to_search |-> path,
     user_parameters |-> user_params, sql_file |-> sql_file]

\* the callback up to its first await
StartSlot(doc, i) ==
    IF Len(doc[i].arguments) < 2
    THEN Slot(i, "null", <<>>, <<>>, Null, NoFile)
    ELSE LET sql_call_key == Argument(doc[i], 0).text
         IN  Slot(i, "findFiles", sql_call_key, SearchPath(sql_call_key),
                  getObjectLiteralProperties(ArgRange(i, 1),
                                             Argument(doc[i], 1)),
                  NoFile)

Settled(slots) == \A k \in 1..Len(slots) : slots[k].state \in {"null", "resolved"}

\* _.compact
TinyCalls(slots) == Filter(slots, {x \in Range(slots) : x.state # "null"})

Pass(doc, pc, slots, error, diagnostics) ==
    [doc |-> doc, pc |-> pc, slots |-> slots, error |-> error,
     diagnostics |-> diagnostics]

\* the pass after a step left it with these slots: it returns, and the
\* caller publishes, as soon as every slot is settled
Continue(doc, slots) ==
    IF Settled(slots)
    THEN Pass(doc, "returned", slots, Null,
              SqlBindingDiagnostics(TinyCalls(slots)))
    ELSE Pass(doc, "awaiting", slots, Null, <<>>)

\* Published appending the result of the pass to the entry it finds
Published_appending(pass, entry) ==
    IF pass.pc # "returned" THEN entry
    ELSE IF isNil(entry) THEN Some(pass.diagnostics)
    ELSE Some(Value(entry) \o pass.diagnostics)

\* Published setting the entry only while the document has none
Published_onlyWhenAbsent(pass, entry) ==
    IF pass.pc = "returned" /\ isNil(entry) THEN Some(pass.diagnostics)
    ELSE entry

Published(pass, entry) ==
    IF pass.pc = "returned" THEN Some(pass.diagnostics) ELSE entry

SqlCallRegexTest(doc) ==
    \E i \in 1..Len(doc) :
        /\ doc[i].name = "sql"
        /\ doc[i].arguments # <<>>
        /\ Argument(doc[i], 0).kind \in LiteralKinds \cup {"TemplateExpression"}

QueryCallRegexTest(doc) ==
    \E i \in 1..Len(doc) :
        /\ doc[i].name = "query"
        /\ doc[i].arguments # <<>>
        /\ Argument(doc[i], 0).kind \in LiteralKinds \cup {"TemplateExpression"}

\* missingSqlFileDiagnostics up to its first pending lookup
StartSqlPass(doc) ==
    LET faults == LocatorFaults("sql", doc)
        found_calls == findAllTinyCalls("sql", doc)
    IN  IF faults # {}
        THEN Pass(doc, "rejected", <<>>, Error("TypeError", Min(faults)), <<>>)
        ELSE Continue(doc, [k \in 1..Len(found_calls) |->
                                StartSlot(doc, found_calls[k])])

----------------------------------------------------------------------------
(* checkQueryBindings: no lookup is awaited, the pass runs to its end *)

QueryFaults(doc, found) ==
    {k \in 1..Len(found) :
        /\ Len(doc[found[k]].arguments) >= 2
        /\ \/ parseSqlThrows(Argument(doc[found[k]], 0).text)
           \/ ~HasProperties(Argument(doc[found[k]], 1))}

QueryFaultType(call_expression) ==
    IF parseSqlThrows(Argument(call_expression, 0).text)
    THEN "SqlParseError" ELSE "TypeError"

QueryEntries(doc, found) ==
    LET located == Filter(found, {i \in Range(found) :
                                     Len(doc[i].arguments) >= 2})
    IN  [k \in 1..Len(located) |->
            [parse_result |->
                Some(parseSql(Argument(doc[located[k]], 0).text)),
             user_parameters |->
                Some(collectUserParams(ArgRange(located[k], 1),
                                       Argument(doc[located[k]], 1))),
             name |-> QueryTarget]]

checkQueryBindings(doc) ==
    LET faults == LocatorFaults("query", doc)
        found_query_calls == findAllTinyCalls("query", doc)
        rejections == QueryFaults(doc, found_query_calls)
        tiny_queries == QueryEntries(doc, found_query_calls)
    IN  IF faults # {}
        THEN Pass(doc, "rejected", <<>>, Error("TypeError", Min(faults)), <<>>)
        ELSE IF rejections # {}
        THEN LET i == found_query_calls[Min(rejections)]
             IN  Pass(doc, "rejected", <<>>,
                      Error(QueryFaultType(doc[i]), i), <<>>)
        ELSE Pass(doc, "returned", <<>>, Null,
                  MissingDiagnosticsOf(tiny_queries)
                  \o ExtraDiagnosticsOf(tiny_queries))

----------------------------------------------------------------------------
(* Documents *)

KeyAB == <<"a", ".", "b">>
KeyABC == <<"a", ".", "b", ".", "c">>

Assign(n) == PropertyNode("PropertyAssignment", "Identifier", n)
Spread == PropertyNode("SpreadAssignment", "None", "...params")

\* db.sql('a.b', { id: 1 })      db.sql('a.b', { ...params })
\* db.sql('a.b', params)         db.sql('a.b')          db.sql()
\* db.sql('a.b.c', { id: 1 })    db.sql(`a.b`, { name: 1 })
\* db.sql(`a.${b}`, { id: 1 })
SqlCalls ==
    {CallExpression("sql", <<StringLiteral(KeyAB), ObjectLiteral(<<Assign("id")>>)>>),
     CallExpression("sql", <<StringLiteral(KeyAB), ObjectLiteral(<<Spread>>)>>),
     CallExpression("sql", <<StringLiteral(KeyAB), Identifier>>),
     CallExpression("sql", <<StringLiteral(KeyAB)>>),
     CallExpression("sql", <<>>),
     CallExpression("sql", <<StringLiteral(KeyABC), ObjectLiteral(<<Assign("id")>>)>>),
     CallExpression("sql", <<NoSubstitutionTemplate(KeyAB),
                             ObjectLiteral(<<Assign("name")>>)>>),
     CallExpression("sql", <<TemplateExpression, ObjectLiteral(<<Assign("id")>>)>>)}

\* db.query('.. :id', { id: 1 })          db.query('.. :id :name', { ...params })
\* db.query('.. :id', params)             db.query('<malformed>', { id: 1 })
\* db.query('.. :id')                     db.query()
QueryCalls ==
    {CallExpression("query", <<StringLiteral(<<"id">>), ObjectLiteral(<<Assign("id")>>)>>),
     CallExpression("query", <<StringLiteral(<<"id", "name">>),
                               ObjectLiteral(<<Spread>>)>>),
     CallExpression("query", <<StringLiteral(<<"id">>), Identifier>>),
     CallExpression("query", <<StringLiteral(Unparsable),
                               ObjectLiteral(<<Assign("id")>>)>>),
     CallExpression("query", <<StringLiteral(<<"id">>)>>),
     CallExpression("query", <<>>)}

Documents == SeqsUpTo(SqlCalls \cup QueryCalls, MaxCalls)

LanguageIds == {"typescript", "javascript"}

----------------------------------------------------------------------------
(* The analysis passes (diagnostics.ts) *)

Gated == Pass(text, "gated", <<>>, Null, <<>>)

\* missingSqlFileDiagnostics(document), started
missingSqlFileDiagnostics ==
    LET pass == IF languageId # "typescript" /\ ~SqlCallRegexTest(text)
                THEN Gated ELSE StartSqlPass(text)
    IN  /\ passes' = Append(passes, pass)
        /\ sql_diagnostics' = Published(pass, sql_diagnostics)

\* runQueryDiagnostics(document)
runQueryDiagnostics ==
    LET pass == IF languageId # "typescript" /\ ~QueryCallRegexTest(text)
                THEN Gated ELSE checkQueryBindings(text)
    IN  /\ query_runs' = Append(query_runs, pass)
        /\ query_diagnostics' = Published(pass, query_diagnostics)

\* runDiagnostics(document), at most  limit  times
runDiagnostics(limit) ==
    /\ Len(passes) < limit
    /\ missingSqlFileDiagnostics
    /\ runQueryDiagnostics
    /\ UNCHANGED <<languageId, text, workspace>>

\* SetSlot storing a settled lookup by completion order: the outcome goes to
\* the first slot still pending instead of the slot of the call it is for
SetSlot_byCompletionOrder(p, k, slot) ==
    LET pending == {j \in 1..Len(passes[p].slots) :
                       passes[p].slots[j].state \notin {"null", "resolved"}}
        first == Min(pending)
        slots == [passes[p].slots EXCEPT
                     ![first] = [@ EXCEPT !.state = slot.state,
                                          !.sql_file = slot.sql_file]]
        pass == Continue(passes[p].doc, slots)
    IN  /\ passes' = [passes EXCEPT ![p] = pass]
        /\ sql_diagnostics' = Published(pass, sql_diagnostics)

SetSlot(p, k, slot) ==
    LET slots == [passes[p].slots EXCEPT ![k] = slot]
        pass == Continue(passes[p].doc, slots)
    IN  /\ passes' = [passes EXCEPT ![p] = pass]
        /\ sql_diagnostics' = Published(pass, sql_diagnostics)

Reject(p, error) ==
    /\ passes' = [passes EXCEPT ![p].pc = "rejected", ![p].error = error]
    /\ UNCHANGED sql_diagnostics

Awaiting(p, k, state) ==
    /\ p \in 1..Len(passes)
    /\ passes[p].pc = "awaiting"
    /\ k \in 1..Len(passes[p].slots)
    /\ passes[p].slots[k].state = state

\* vscode.workspace.findFiles resolves for slot k of pass p
FindFilesReturns(p, k) ==
    /\ Awaiting(p, k, "findFiles")
    /\ LET slot == passes[p].slots[k]
           file_uris == findFiles(slot.path_to_search, ExcludePattern, workspace)
       IN  IF file_uris = {}
           THEN SetSlot(p, k, [slot EXCEPT !.state = "resolved"])
           ELSE \E tiny_file \in file_uris :
                   SetSlot(p, k, [slot EXCEPT !.state = "openTextDocument",
                                              !.sql_file.uri = Some(tiny_file)])
    /\ UNCHANGED <<languageId, text, workspace, query_runs, query_diagnostics>>

\* vscode.workspace.openTextDocument resolves for slot k of pass p
OpenTextDocumentReturns(p, k) ==
    /\ Awaiting(p, k, "openTextDocument")
    /\ LET slot == passes[p].slots[k]
           contents == ContentOf(Value(slot.sql_file.uri))
       IN  IF parseSqlThrows(contents)
           THEN Reject(p, Error("SqlParseError", slot.call))
           ELSE SetSlot(p, k,
                    [slot EXCEPT !.state = "resolved",
                                 !.sql_file.parse_result =
                                     Some(parseSql(contents))])
    /\ UNCHANGED <<languageId, text, workspace, query_runs, query_diagnostics>>

\* vscode.workspace.openTextDocument rejects for slot k of pass p
OpenTextDocumentFails(p, k) ==
    /\ Awaiting(p, k, "openTextDocument")
    /\ Reject(p, Error("ReadError", passes[p].slots[k].call))
    /\ UNCHANGED <<languageId, text, workspace, query_runs, query_diagnostics>>

OtherIdle ==
    /\ other_text = <<>>
    /\ other_run = Null
    /\ other_sql_diagnostics = Null
    /\ other_query_diagnostics = Null

LocatorIdle ==
    /\ source_file = Null
    /\ target_name = "sql"
    /\ matching_expressions = Null
    /\ locator_pc = "idle"

TriggersIdle ==
    /\ invalid_tiny_file_parameters = Null
    /\ invalid_tiny_query_parameters = Null
    /\ missing_tiny_files = Null
    /\ event = Null

UnitIdle ==
    /\ argument1 = Identifier
    /\ sql_source = Null
    /\ user_parameters = Null
    /\ extra_check = Null
    /\ missing_check = Null
    /\ call_diagnostics = <<>>
    /\ unit_pc = "idle"

Init ==
    /\ UnitIdle
    /\ OtherIdle
    /\ LocatorIdle
    /\ TriggersIdle
    /\ languageId \in LanguageIds
    /\ text \in Documents
    /\ workspace \in SUBSET WorkspaceFiles
    /\ passes = <<>>
    /\ query_runs = <<>>
    /\ sql_diagnostics = Null
    /\ query_diagnostics = Null

Next ==
    \/ runDiagnostics(1) /\ UNCHANGED outside_passes
    \/ \E k \in 1..MaxCalls : FindFilesReturns(1, k) /\ UNCHANGED outside_passes
    \/ \E k \in 1..MaxCalls : OpenTextDocumentReturns(1, k) /\ UNCHANGED outside_passes
    \/ \E k \in 1..MaxCalls : OpenTextDocumentFails(1, k) /\ UNCHANGED outside_passes

Spec == Init /\ [][Next]_vars

PassIdle ==
    /\ languageId = "typescript"
    /\ text = <<>>
    /\ workspace = {}
    /\ passes = <<>>
    /\ query_runs = <<>>
    /\ sql_diagnostics = Null
    /\ query_diagnostics = Null

InitParams ==
    UnitInit /\ PassIdle /\ OtherIdle /\ LocatorIdle /\ TriggersIdle

NextParams ==
    \/ Extract /\ UNCHANGED outside_unit
    \/ Reconcile /\ UNCHANGED outside_unit
    \/ Format /\ UNCHANGED outside_unit

SpecParams == InitParams /\ [][NextParams]_vars

----------------------------------------------------------------------------
(* Two passes over one document whose text is edited in between *)

RacingPasses == 2

\* db.sql(`a.b`, { name: 1 })
RaceCalls ==
    {CallExpression("sql", <<NoSubstitutionTemplate(KeyAB),
                             ObjectLiteral(<<Assign("name")>>)>>)}

RaceDocuments == SeqsUpTo(RaceCalls, MaxRaceCalls)

\* the user edits the document
Edit ==
    /\ text' \in RaceDocuments \ {text}
    /\ UNCHANGED <<languageId, workspace, passes, query_runs, sql_diagnostics,
                   query_diagnostics>>

InitRace ==
    /\ UnitIdle
    /\ OtherIdle
    /\ LocatorIdle
    /\ TriggersIdle
    /\ languageId = "typescript"
    /\ text \in RaceDocuments
    /\ workspace \in SUBSET {SrcAB, ModulesAB}
    /\ passes = <<>>
    /\ query_runs = <<>>
    /\ sql_diagnostics = Null
    /\ query_diagnostics = Null

NextRace ==
    \/ Edit /\ UNCHANGED outside_passes
    \/ runDiagnostics(RacingPasses) /\ UNCHANGED outside_passes
    \/ \E p \in 1..RacingPasses, k \in 1..MaxRaceCalls :
          FindFilesReturns(p, k) /\ UNCHANGED outside_passes
    \/ \E p \in 1..RacingPasses, k \in 1..MaxRaceCalls :
          OpenTextDocumentReturns(p, k) /\ UNCHANGED outside_passes
    \/ \E p \in 1..RacingPasses, k \in 1..MaxRaceCalls :
          OpenTextDocumentFails(p, k) /\ UNCHANGED outside_passes

SpecRace == InitRace /\ [][NextRace]_vars

----------------------------------------------------------------------------
(* A second document analysed while passes over the first are in flight *)

\* db.query('.. :id :name', { id: 1 })     db.query('.. :id', params)
\* db.sql('a.b')
\* no call of these texts awaits a file lookup: a pass over them runs to
\* its end before any other event is handled
OtherCalls ==
    {CallExpression("query", <<StringLiteral(<<"id", "name">>),
                               ObjectLiteral(<<Assign("id")>>)>>),
     CallExpression("query", <<StringLiteral(<<"id">>), Identifier>>),
     CallExpression("sql", <<StringLiteral(KeyAB)>>)}

\* the second document is empty or holds one of these calls
OtherDocuments == {<<>>} \cup {<<c>> : c \in OtherCalls}

\* runDiagnostics(other_document), a typescript document
runDiagnosticsOther ==
    LET sql_pass == StartSqlPass(other_text)
        query_pass == checkQueryBindings(other_text)
    IN  /\ other_run' = Some([sql |-> sql_pass, query |-> query_pass])
        /\ other_sql_diagnostics' = Published(sql_pass, other_sql_diagnostics)
        /\ other_query_diagnostics' =
              Published(query_pass, other_query_diagnostics)
        /\ UNCHANGED other_text

InitDocs ==
    /\ UnitIdle
    /\ LocatorIdle
    /\ TriggersIdle
    /\ languageId = "typescript"
    /\ text \in RaceDocuments
    /\ workspace = {SrcAB}
    /\ passes = <<>>
    /\ query_runs = <<>>
    /\ sql_diagnostics = Null
    /\ query_diagnostics = Null
    /\ other_text \in OtherDocuments
    /\ other_run = Null
    /\ other_sql_diagnostics = Null
    /\ other_query_diagnostics = Null

NextDocs ==
    \/ NextRace
    \/ runDiagnosticsOther
       /\ UNCHANGED <<unit_vars, pass_vars, locator_vars, trigger_vars>>

SpecDocs == InitDocs /\ [][NextDocs]_vars

----------------------------------------------------------------------------
(* Passes over a document of either language whose text comes and goes *)

\* db.sql(`a.b`, { name: 1 })     db.query('.. :id :name', { id: 1 })
\* db.sql()
GateCalls ==
    RaceCalls
    \cup {CallExpression("query", <<StringLiteral(<<"id", "name">>),
                                    ObjectLiteral(<<Assign("id")>>)>>),
          CallExpression("sql", <<>>)}

\* the text is empty or holds one call; neither regular expression matches
\* the empty text or db.sql()
GateDocuments == {<<>>} \cup {<<c>> : c \in GateCalls}

\* the user replaces the text by another of these texts
EditGated ==
    /\ text' \in GateDocuments \ {text}
    /\ UNCHANGED <<languageId, workspace, passes, query_runs, sql_diagnostics,
                   query_diagnostics>>

InitGate ==
    /\ UnitIdle
    /\ OtherIdle
    /\ LocatorIdle
    /\ TriggersIdle
    /\ languageId \in LanguageIds
    /\ text \in GateDocuments
    /\ workspace \in SUBSET {SrcAB}
    /\ passes = <<>>
    /\ query_runs = <<>>
    /\ sql_diagnostics = Null
    /\ query_diagnostics = Null

NextGate ==
    \/ EditGated /\ UNCHANGED outside_passes
    \/ runDiagnostics(RacingPasses) /\ UNCHANGED outside_passes
    \/ \E p \in 1..RacingPasses, k \in 1..MaxRaceCalls :
          FindFilesReturns(p, k) /\ UNCHANGED outside_passes
    \/ \E p \in 1..RacingPasses, k \in 1..MaxRaceCalls :
          OpenTextDocumentReturns(p, k) /\ UNCHANGED outside_passes
    \/ \E p \in 1..RacingPasses, k \in 1..MaxRaceCalls :
          OpenTextDocumentFails(p, k) /\ UNCHANGED outside_passes

SpecGate == InitGate /\ [][NextGate]_vars

----------------------------------------------------------------------------
(* The call-site locator over a syntax tree (util.ts findAllTinyCallsHelp) *)

\* a node of the tree: its kind, the text of its  name  member (of a member
\* access or a function expression), the callee and the arguments of a call
\* expression, and its other children
Node(kind, name, expression, arguments, children) ==
    [kind |-> kind, name |-> name, expression |-> expression,
     arguments |-> arguments, children |-> children]

Token(kind) == Node(kind, "", <<>>, <<>>, <<>>)
Parent(kind, children) == Node(kind, "", <<>>, <<>>, children)
PropertyAccess(object, name) ==
    Node("PropertyAccessExpression", name, <<>>, <<>>, <<object>>)
Call(callee, arguments) == Node("CallExpression", "", <<callee>>, arguments, <<>>)
MemberCall(name, arguments) ==
    Call(PropertyAccess(Token("Identifier"), name), arguments)

\* ts.forEachChild(n, ...): the children in source order
forEachChild(n) == n.expression \o n.arguments \o n.children

\* property_expression && property_expression.name
HasName(n) ==
    n.kind \in {"PropertyAccessExpression", "FunctionExpression"} /\ n.name # ""

\* the node is a call whose callee carries the name call_name
NamedCall(call_name, n) ==
    /\ n.kind = "CallExpression"
    /\ HasName(n.expression[1])
    /\ n.expression[1].name = call_name

\* call_expression.arguments[0].kind  reads a member of undefined somewhere
\* in the tree: the traversal throws a TypeError
RECURSIVE ReadsUndefined(_, _)
ReadsUndefined(call_name, n) ==
    \/ NamedCall(call_name, n) /\ n.arguments = <<>>
    \/ \E k \in 1..Len(forEachChild(n)) :
          ReadsUndefined(call_name, forEachChild(n)[k])

\* the nodes pushed to  results , each named by its path from the root
RECURSIVE findAllTinyCallsHelp(_, _, _)
RECURSIVE VisitChildren(_, _, _, _)
findAllTinyCallsHelp(call_name, n, path) ==
    (IF /\ NamedCall(call_name, n)
        /\ n.arguments # <<>>
        /\ n.arguments[1].kind \in LiteralKinds
     THEN <<path>> ELSE <<>>)
    \o VisitChildren(call_name, forEachChild(n), path, 1)

VisitChildren(call_name, children, path, k) ==
    IF k > Len(children) THEN <<>>
    ELSE findAllTinyCallsHelp(call_name, children[k], Append(path, k))
         \o VisitChildren(call_name, children, path, k + 1)

\* db.sql('a.b', {})     db.sql(`a.b`)     db.sql(`a.${b}`)     db.sql(key)
\* db.sql()              db.query('..')    sql('a.b')
\* function sql(k) {}('a.b')
LeafCalls ==
    {MemberCall("sql", <<Token("StringLiteral"),
                         Parent("ObjectLiteralExpression", <<>>)>>),
     MemberCall("sql", <<Token("NoSubstitutionTemplateLiteral")>>),
     MemberCall("sql", <<Token("TemplateExpression")>>),
     MemberCall("sql", <<Token("Identifier")>>),
     MemberCall("sql", <<>>),
     MemberCall("query", <<Token("StringLiteral")>>),
     Call(Node("Identifier", "sql", <<>>, <<>>, <<>>), <<Token("StringLiteral")>>),
     Call(Node("FunctionExpression", "sql", <<>>, <<>>, <<>>),
          <<Token("StringLiteral")>>)}

\* db.run(c)     db.sql('a.b', { id: c })     () => c
\* function f() { c }     c.then()
Enclosing(c) ==
    {MemberCall("run", <<c>>),
     MemberCall("sql",
         <<Token("StringLiteral"),
           Parent("ObjectLiteralExpression",
                  <<Parent("PropertyAssignment", <<Token("Identifier"), c>>)>>)>>),
     Parent("ArrowFunction", <<c>>),
     Parent("FunctionDeclaration",
            <<Parent("Block", <<Parent("ExpressionStatement", <<c>>)>>)>>),
     Call(PropertyAccess(c, "then"), <<>>)}

Statements == LeafCalls \cup UNION {Enclosing(c) : c \in LeafCalls}

SourceFiles ==
    {Parent("SourceFile", body) : body \in SeqsUpTo(Statements, MaxCalls)}

\* findAllTinyCalls(call_name, n)
Locate ==
    /\ locator_pc = "ready"
    /\ IF ReadsUndefined(target_name, source_file)
       THEN /\ locator_pc' = "threw"
            /\ matching_expressions' = Null
       ELSE /\ locator_pc' = "returned"
            /\ matching_expressions' =
                   Some(findAllTinyCallsHelp(target_name, source_file, <<>>))
    /\ UNCHANGED <<source_file, target_name>>

InitLocator ==
    /\ UnitIdle
    /\ PassIdle
    /\ OtherIdle
    /\ TriggersIdle
    /\ source_file \in SourceFiles
    /\ target_name \in {"sql", "query"}
    /\ matching_expressions = Null
    /\ locator_pc = "ready"

NextLocator ==
    Locate /\ UNCHANGED <<unit_vars, pass_vars, other_vars, trigger_vars>>

SpecLocator == InitLocator /\ [][NextLocator]_vars

----------------------------------------------------------------------------
(* The event handlers of activate and the checks they call (extension.ts) *)

Outcome(pc, diagnostics) == [pc |-> pc, diagnostics |-> diagnostics]

\* _.compact / results.filter(x => x), the values unwrapped
Compact(results) ==
    LET present == Filter(results, {x \in Range(results) : ~isNil(x)})
    IN  [k \in 1..Len(present) |-> Value(present[k])]

\* names.filter(p => !others.some(x => x === p))
Without(names, others) ==
    Filter(names, {p \in Range(names) : p \notin Range(others)})

\* the file findTinySqlFile returns for the key; no key of the workspaces
\* below is matched by more than one file
TinyFileOf(key, files) == findFiles(SearchPath(key), ExcludePattern, files)

\* the callback of checkForSqlBindings for the i-th call expression
SqlCallResult(doc, i, files) ==
    LET key == Argument(doc[i], 0).text
        tiny_file == TinyFileOf(key, files)
    IN  IF Len(doc[i].arguments) < 2 THEN Null
        ELSE IF tiny_file = {}
                \/ Argument(doc[i], 1).kind # "ObjectLiteralExpression"
        THEN Null
        ELSE LET params == collectUserParams(ArgRange(i, 1),
                                             Argument(doc[i], 1))
                 contents == ContentOf(CHOOSE f \in tiny_file : TRUE)
             IN  Some([range |-> ArgRange(i, 1),
                       mapping |-> MappingNames(parseSql(contents)),
                       sql_call_key |-> key,
                       property_names |-> params.property_names,
                       all_property_assignment |->
                           params.all_property_assignment])

SqlCallThrows(doc, i, files) ==
    /\ Len(doc[i].arguments) >= 2
    /\ Argument(doc[i], 1).kind = "ObjectLiteralExpression"
    /\ \E f \in TinyFileOf(Argument(doc[i], 0).text, files) :
          parseSqlThrows(ContentOf(f))

MissingMessage(names) ==
    [finding |-> "Missing expected properties", names |-> names, target |-> <<>>]

ExtraMessage(names, target) ==
    [finding |-> "Properties do not exist", names |-> names, target |-> target]

MissingOf(results) ==
    LET full_verify == Filter(results, {x \in Range(results) :
                                           x.all_property_assignment})
        reported == Filter(full_verify,
                           {x \in Range(full_verify) :
                               Without(x.mapping, x.property_names) # <<>>})
    IN  [k \in 1..Len(reported) |->
            Diagnostic(reported[k].range,
                       MissingMessage(Without(reported[k].mapping,
                                              reported[k].property_names)),
                       "Error")]

ExtraOf(results) ==
    LET reported == Filter(results,
                           {x \in Range(results) :
                               Without(x.property_names, x.mapping) # <<>>})
    IN  [k \in 1..Len(reported) |->
            Diagnostic(reported[k].range,
                       ExtraMessage(Without(reported[k].property_names,
                                            reported[k].mapping),
                                    reported[k].sql_call_key),
                       "Warning")]

\* checkForSqlBindings of extension.ts
ext_checkForSqlBindings(doc, files) ==
    LET found_sql_calls == findAllTinyCalls("sql", doc)
        results == Compact([k \in 1..Len(found_sql_calls) |->
                              SqlCallResult(doc, found_sql_calls[k], files)])
    IN  IF \/ LocatorFaults("sql", doc) # {}
           \/ \E k \in 1..Len(found_sql_calls) :
                 SqlCallThrows(doc, found_sql_calls[k], files)
        THEN Outcome("rejected", <<>>)
        ELSE Outcome("returned", MissingOf(results) \o ExtraOf(results))

\* the callback of checkQueryBindings for the i-th call expression
QueryCallResult(doc, i) ==
    IF Len(doc[i].arguments) < 2 THEN Null
    ELSE LET params == collectUserParams(ArgRange(i, 1), Argument(doc[i], 1))
         IN  Some([range |-> ArgRange(i, 1),
                   mapping |-> MappingNames(parseSql(Argument(doc[i], 0).text)),
                   sql_call_key |-> <<"the supplied query">>,
                   property_names |-> params.property_names,
                   all_property_assignment |-> params.all_property_assignment])

\* checkQueryBindings of extension.ts
ext_checkQueryBindings(doc) ==
    LET found_query_calls == findAllTinyCalls("query", doc)
        results == Compact([k \in 1..Len(found_query_calls) |->
                              QueryCallResult(doc, found_query_calls[k])])
    IN  IF \/ LocatorFaults("query", doc) # {}
           \/ QueryFaults(doc, found_query_calls) # {}
        THEN Outcome("rejected", <<>>)
        ELSE Outcome("returned", ExtraOf(results) \o MissingOf(results))

\* SqlCallRegex.exec(line): the line of the i-th call expression matches
LineMatches(doc, i) == SqlCallRegexTest(<<doc[i]>>)

\* matches[1]: the characters between the quotes
RegexKey(argument) ==
    IF argument.kind = "TemplateExpression" THEN <<"a", ".", "${b}">>
    ELSE argument.text

\* the range from behind '.sql' to the end of the match
MatchRange(i) == [call |-> i, arg |-> "match"]

\* f.indexOf(x) >= 0
Contains(f, x) ==
    \E k \in 0..(Len(f) - Len(x)) : SubSeq(f, k + 1, k + Len(x)) = x

RECURSIVE FileDontExist(_, _)
FileDontExist(names, tiny_files) ==
    IF names = <<>> THEN <<>>
    ELSE LET group == Filter(tiny_files, {t \in Range(tiny_files) :
                                             t.file = Head(names)})
         IN  [k \in 1..Len(group) |->
                 Diagnostic(group[k].range,
                            [finding |-> "file dont exist", names |-> <<>>,
                             target |-> <<>>],
                            "Error")]
             \o FileDontExist(Tail(names), tiny_files)

missingTinyFiles(doc, files) ==
    LET lines == AscendingFrom(1, Len(doc),
                               {i \in 1..Len(doc) : LineMatches(doc, i)})
        tiny_files ==
            [k \in 1..Len(lines) |->
                [range |-> MatchRange(lines[k]),
                 file |-> ReplaceAll(RegexKey(Argument(doc[lines[k]], 0)),
                                     ".", "/") \o <<".sql">>]]
        sql_file_names == {f \in files : ~Excluded(ExcludePattern, f)}
        tiny_file_names ==
            Distinct([k \in 1..Len(tiny_files) |-> tiny_files[k].file], {})
        non_existent ==
            Filter(tiny_file_names,
                   {x \in Range(tiny_file_names) :
                       ~\E f \in sql_file_names : Contains(f, x)})
    IN  FileDontExist(non_existent, tiny_files)

\* runFileDiagnostics(document, check_params): how it ends and what the two
\* collections it sets hold afterwards
runFileDiagnostics(doc, check_params) ==
    LET bindings == ext_checkForSqlBindings(doc, workspace)
    IN  IF languageId # "typescript" /\ ~SqlCallRegexTest(doc)
        THEN [pc |-> "returned",
              parameters |-> invalid_tiny_file_parameters,
              files |-> missing_tiny_files]
        ELSE IF check_params /\ bindings.pc = "rejected"
        THEN [pc |-> "rejected",
              parameters |-> invalid_tiny_file_parameters,
              files |-> missing_tiny_files]
        ELSE [pc |-> "returned",
              parameters |-> IF check_params THEN Some(bindings.diagnostics)
                             ELSE invalid_tiny_file_parameters,
              files |-> Some(missingTinyFiles(doc, workspace))]

\* runQueryDiagnostics(document) of activate
ext_runQueryDiagnostics(doc) ==
    LET bindings == ext_checkQueryBindings(doc)
    IN  IF languageId # "typescript" /\ ~QueryCallRegexTest(doc)
        THEN [pc |-> "returned", queries |-> invalid_tiny_query_parameters]
        ELSE IF bindings.pc = "rejected"
        THEN [pc |-> "rejected", queries |-> invalid_tiny_query_parameters]
        ELSE [pc |-> "returned", queries |-> Some(bindings.diagnostics)]

Event(type, qualifying, pc) ==
    Some([type |-> type, qualifying |-> qualifying, pc |-> pc])

\* await runFileDiagnostics(document, true); await runQueryDiagnostics(document)
FullRun(type) ==
    LET file == runFileDiagnostics(text, TRUE)
        query == ext_runQueryDiagnostics(text)
    IN  /\ invalid_tiny_file_parameters' = file.parameters
        /\ missing_tiny_files' = file.files
        /\ invalid_tiny_query_parameters' =
              IF file.pc = "rejected" THEN invalid_tiny_query_parameters
              ELSE query.queries
        /\ event' = Event(type, TRUE,
                          IF file.pc = "rejected" \/ query.pc = "rejected"
                          THEN "rejected" ELSE "fulfilled")
        /\ UNCHANGED <<languageId, text, workspace>>

onDidOpenTextDocument == FullRun("open")

onDidSaveTextDocument == FullRun("save")

\* the document is edited to new_text, the change ending in the line of its
\* call expression  line  (0: in a line without a call expression)
onDidChangeTextDocument(new_text, line) ==
    LET qualifying == /\ languageId = "typescript"
                      /\ line # 0
                      /\ LineMatches(new_text, line)
        file == runFileDiagnostics(new_text, FALSE)
    IN  /\ text' = new_text
        /\ invalid_tiny_file_parameters' =
              IF qualifying THEN file.parameters
              ELSE invalid_tiny_file_parameters
        /\ missing_tiny_files' =
              IF qualifying THEN file.files ELSE missing_tiny_files
        /\ event' = Event("change", qualifying, "fulfilled")
        /\ UNCHANGED <<languageId, workspace, invalid_tiny_query_parameters>>

\* document.isClosed: the last event of the document was its closing
isClosed == ~isNil(event) /\ Value(event).type = "close"

\* the editor closes the document: activate subscribes to no
\* onDidCloseTextDocument event and nothing deletes or clears an entry, so
\* no handler runs and the three collections keep what they hold
onDidCloseTextDocument ==
    /\ ~isClosed
    /\ event' = Event("close", FALSE, "fulfilled")
    /\ UNCHANGED <<languageId, text, workspace, invalid_tiny_file_parameters,
                   invalid_tiny_query_parameters, missing_tiny_files>>

\* db.sql(`a.b`, { name: 1 })     db.query('.. :id :name', { id: 1 })
\* db.query('.. :id', params)
TriggerCalls ==
    RaceCalls
    \cup {CallExpression("query", <<StringLiteral(<<"id", "name">>),
                                    ObjectLiteral(<<Assign("id")>>)>>),
          CallExpression("query", <<StringLiteral(<<"id">>), Identifier>>)}

TriggerDocuments == SeqsUpTo(TriggerCalls, MaxRaceCalls)

InitTriggers ==
    /\ UnitIdle
    /\ OtherIdle
    /\ LocatorIdle
    /\ TriggersIdle
    /\ languageId \in LanguageIds
    /\ text \in TriggerDocuments
    /\ workspace \in SUBSET {SrcAB, ModulesAB}
    /\ passes = <<>>
    /\ query_runs = <<>>
    /\ sql_diagnostics = Null
    /\ query_diagnostics = Null

outside_triggers ==
    <<unit_vars, other_vars, locator_vars, passes, query_runs,
      sql_diagnostics, query_diagnostics>>

\* a closed document is neither saved nor edited before it is opened again
NextTriggers ==
    \/ onDidOpenTextDocument /\ UNCHANGED outside_triggers
    \/ ~isClosed /\ onDidSaveTextDocument /\ UNCHANGED outside_triggers
    \/ \E new_text \in TriggerDocuments \ {text} :
          \E line \in 0..Len(new_text) :
              /\ ~isClosed
              /\ onDidChangeTextDocument(new_text, line)
              /\ UNCHANGED outside_triggers
    \/ onDidCloseTextDocument /\ UNCHANGED outside_triggers

SpecTriggers == InitTriggers /\ [][NextTriggers]_vars

----------------------------------------------------------------------------
(* Properties *)

Runs == Range(passes) \cup Range(query_runs)

Finished(pass) == pass.pc \in {"returned", "rejected", "gated"}

TwoOrMoreArguments(call_expression) == Len(call_expression.arguments) >= 2

NonExhaustiveLiteral(call_expression) ==
    /\ TwoOrMoreArguments(call_expression)
    /\ Argument(call_expression, 1).kind = "ObjectLiteralExpression"
    /\ \E x \in Range(Argument(call_expression, 1).properties) :
          x.kind \notin AssignmentKinds

NonLiteralParameters(call_expression) ==
    /\ TwoOrMoreArguments(call_expression)
    /\ Argument(call_expression, 1).kind # "ObjectLiteralExpression"

\* the diagnostics of a pass whose range lies in the i-th call expression
DiagnosticsAt(pass, i) ==
    Filter(pass.diagnostics,
           {d \in Range(pass.diagnostics) : d.range.call = i})

\* C1: a pass emits no 'Missing parameter(s)' diagnostic for a call whose
\* object literal holds a property that is not a plain or shorthand
\* assignment, whatever the resolved SQL expects.
C1_NoMissingForNonExhaustive ==
    \A pass \in Runs :
        \A d \in Range(pass.diagnostics) :
            d.message.finding = "Missing"
                => ~NonExhaustiveLiteral(pass.doc[d.range.call])

\* C2: when two passes over the same document, the first started on older
\* text and the second on newer text, have both finished, the entry of the
\* document in the collection holds the result computed from the newer text.
C2_NewerResultPublished ==
    (/\ Len(passes) = RacingPasses
     /\ \A p \in 1..Len(passes) : Finished(passes[p])
     /\ passes[Len(passes)].pc = "returned")
        => sql_diagnostics = Some(passes[Len(passes)].diagnostics)

\* C3: with a parameter literal and a resolved expected list,
\* checkForExtraProperties returns as extra_properties exactly the supplied
\* names that equal no expected name, for all names, whether or not the
\* literal is exhaustive.
C3_ExtraIsSuppliedMinusExpected ==
    (/\ unit_pc \in {"reconciled", "done"}
     /\ ~isNil(user_parameters)
     /\ ~isNil(sql_source))
        => /\ ~isNil(extra_check)
           /\ Range(Value(extra_check).extra_properties) =
                 Range(Value(user_parameters).property_names)
                 \ Range(Value(sql_source))

\* C4: with an exhaustive parameter literal and a resolved expected list,
\* checkForMissingProperties returns as missing_properties exactly the
\* expected names that equal no supplied name, for all names.
C4_MissingIsExpectedMinusSupplied ==
    (/\ unit_pc \in {"reconciled", "done"}
     /\ ~isNil(user_parameters)
     /\ ~isNil(sql_source)
     /\ Value(user_parameters).all_property_assignment)
        => /\ ~isNil(missing_check)
           /\ Range(Value(missing_check).missing_properties) =
                 Range(Value(sql_source))
                 \ Range(Value(user_parameters).property_names)

UnresolvedSlots(pass) ==
    {k \in 1..Len(pass.slots) :
        pass.slots[k].state = "resolved" /\ isNil(pass.slots[k].sql_file.uri)}

\* C5: for every sql call with two or more arguments whose key resolves to
\* no file, the result of checkForSqlBindings holds exactly one diagnostic
\* for that call, the Error 'SQL file [key] not found' at the range of the
\* key argument, and no missing- or unused-parameter diagnostic, whatever
\* the second argument is and however many unresolved calls share the key.
C5_OneNotFoundPerUnresolvedCall ==
    \A p \in 1..Len(passes) :
        passes[p].pc = "returned" =>
            \A k \in UnresolvedSlots(passes[p]) :
                LET i == passes[p].slots[k].call
                    key == Argument(passes[p].doc[i], 0).text
                IN  DiagnosticsAt(passes[p], i) =
                        <<Diagnostic(ArgRange(i, 0), NotFoundMessage(key),
                                     "Error")>>

\* C5 witness: a pass has returned with two unresolved calls of the same
\* key, one with an object literal naming a parameter and one without an
\* object literal, and has published its result.
C5_Witness ==
    \E p \in 1..Len(passes) :
        /\ passes[p].pc = "returned"
        /\ sql_diagnostics = Some(passes[p].diagnostics)
        /\ \E j, k \in UnresolvedSlots(passes[p]) :
              /\ j # k
              /\ passes[p].slots[j].sql_call_key = passes[p].slots[k].sql_call_key
              /\ isNil(passes[p].slots[j].user_parameters)
              /\ ~isNil(passes[p].slots[k].user_parameters)
              /\ Value(passes[p].slots[k].user_parameters).property_names # <<>>

\* C6: a call of sql or query with fewer than two arguments produces no
\* diagnostic: it never makes the pass fail and no diagnostic of the result
\* lies in that call.
C6_FewArgumentsYieldNothing ==
    \A pass \in Runs :
        /\ pass.pc = "rejected"
              => TwoOrMoreArguments(pass.doc[Value(pass.error).call])
        /\ \A d \in Range(pass.diagnostics) :
              TwoOrMoreArguments(pass.doc[d.range.call])

\* C7: a call whose second argument is not an object literal gets no
\* parameter reconciliation: it raises no error in the pass and no
\* missing- or unused-parameter diagnostic lies in it, on the sql path and
\* on the query path.
C7_NonLiteralParametersSkipped ==
    \A pass \in Runs :
        /\ (pass.pc = "rejected" /\ Value(pass.error).type = "TypeError")
              => ~NonLiteralParameters(pass.doc[Value(pass.error).call])
        /\ \A d \in Range(pass.diagnostics) :
              d.message.finding \in {"Missing", "Unused"}
                  => ~NonLiteralParameters(pass.doc[d.range.call])

\* C8: a parser or file-read failure at one call site does not make the
\* pass fail: the call is treated as unresolved and the pass returns the
\* diagnostics of the other call sites.
C8_FailuresAreLocal ==
    \A pass \in Runs :
        pass.pc = "rejected"
            => Value(pass.error).type \notin {"SqlParseError", "ReadError"}

\* C9: findTinySqlFile searches the path made of the key with every dot
\* replaced by a path separator and '.sql' appended, outside node_modules,
\* and returns absent exactly when no file matches.
C9_EveryDotBecomesSeparator ==
    \A p \in 1..Len(passes) :
        \A k \in 1..Len(passes[p].slots) :
            LET slot == passes[p].slots[k]
                path == <<"**/">> \o ReplaceAll(slot.sql_call_key, ".", "/")
                        \o <<".sql">>
            IN  slot.state # "null" =>
                    /\ slot.path_to_search = path
                    /\ "." \notin Range(slot.path_to_search)
                    /\ slot.state = "resolved" =>
                          (isNil(slot.sql_file.uri) <=>
                              findFiles(path, ExcludePattern, workspace) = {})
                    /\ ~isNil(slot.sql_file.uri) =>
                          ~Excluded(ExcludePattern, Value(slot.sql_file.uri))

StaticallyNamed(x) ==
    x.kind \in AssignmentKinds /\ x.name_kind # "ComputedPropertyName"

\* C10: all_property_assignment is true exactly when every property of the
\* literal is a plain or shorthand assignment with a statically known name;
\* a spread or a computed key makes it false, and a computed key
\* contributes no name to property_names.
C10_ExhaustiveIffAllStaticAssignments ==
    (unit_pc # "located" /\ ~isNil(user_parameters)) =>
        LET properties == argument1.properties
            static == Filter(properties,
                             {x \in Range(properties) : StaticallyNamed(x)})
        IN  /\ Value(user_parameters).all_property_assignment
                  <=> \A x \in Range(properties) : StaticallyNamed(x)
            /\ Value(user_parameters).property_names =
                  [k \in 1..Len(static) |-> static[k].text]

\* the files the key of the i-th call of the pass resolves to
OwnFiles(pass, i) ==
    findFiles(SearchPath(Argument(pass.doc[i], 0).text), ExcludePattern,
              workspace)

\* the names the object literal of the i-th call of the pass supplies
OwnNames(pass, i) ==
    Range(collectUserParams(ArgRange(i, 1),
                            Argument(pass.doc[i], 1)).property_names)

\* C11: in whatever order the file lookups of a pass complete, every
\* diagnostic of its result belongs to the call it lies in: it names that
\* call's own key; a not-found diagnostic covers that call's key argument
\* and that key resolves to no file; a missing- or unused-parameter
\* diagnostic covers that call's own object literal and lists names
\* reconciled between that literal and a file that call's key resolves to.
C11_AnchoredToOriginatingCall ==
    \A p \in 1..Len(passes) :
        \A d \in Range(passes[p].diagnostics) :
            LET i == d.range.call
                call_expression == passes[p].doc[i]
            IN  /\ call_expression.name = "sql"
                /\ TwoOrMoreArguments(call_expression)
                /\ d.message.target = Argument(call_expression, 0).text
                /\ d.message.finding = "SQL file not found" =>
                      /\ d.range = ArgRange(i, 0)
                      /\ OwnFiles(passes[p], i) = {}
                /\ d.message.finding = "Unused" =>
                      /\ d.range = ArgRange(i, 1)
                      /\ HasProperties(Argument(call_expression, 1))
                      /\ Range(d.message.names) \subseteq OwnNames(passes[p], i)
                      /\ \E f \in OwnFiles(passes[p], i) :
                            Range(d.message.names) \cap Range(ContentOf(f)) = {}
                /\ d.message.finding = "Missing" =>
                      /\ d.range = ArgRange(i, 1)
                      /\ HasProperties(Argument(call_expression, 1))
                      /\ Range(d.message.names) \cap OwnNames(passes[p], i) = {}
                      /\ \E f \in OwnFiles(passes[p], i) :
                            Range(d.message.names) \subseteq Range(ContentOf(f))

\* C11 witness: a pass over two calls of different keys, each of which
\* awaited its own file lookup, has returned a parameter diagnostic for one
\* call and a not-found diagnostic for the other.
C11_Witness ==
    \E p \in 1..Len(passes) :
        /\ passes[p].pc = "returned"
        /\ Len(passes[p].slots) = 2
        /\ \A k \in 1..2 : passes[p].slots[k].state = "resolved"
        /\ passes[p].slots[1].sql_call_key # passes[p].slots[2].sql_call_key
        /\ \E d, e \in Range(passes[p].diagnostics) :
              /\ d.range.call # e.range.call
              /\ d.message.finding \in {"Missing", "Unused"}
              /\ e.message.finding = "SQL file not found"

NoDuplicates(names) == Cardinality(Range(names)) = Len(names)

\* C12: a name counts once however often it is written: no name occurs
\* twice in extra_properties or in missing_properties, and a formatted
\* message lists as many names as there are distinct offending names.
C12_EachOffendingNameOnce ==
    /\ (unit_pc \in {"reconciled", "done"} /\ ~isNil(extra_check))
          => NoDuplicates(Value(extra_check).extra_properties)
    /\ (unit_pc \in {"reconciled", "done"} /\ ~isNil(missing_check))
          => NoDuplicates(Value(missing_check).missing_properties)
    /\ unit_pc = "done"
          => \A d \in Range(call_diagnostics) : NoDuplicates(d.message.names)

Findings(pass) == {d.message.finding : d \in Range(pass.diagnostics)}

\* C13: every diagnostic returned by checkForSqlBindings or
\* checkQueryBindings is a missing-parameter or not-found finding of
\* severity Error or an unused-parameter finding of severity Warning.
C13_SeverityByFinding ==
    \A pass \in Runs :
        \A d \in Range(pass.diagnostics) :
            \/ /\ d.message.finding \in {"Missing", "SQL file not found"}
               /\ d.severity = "Error"
            \/ /\ d.message.finding = "Unused"
               /\ d.severity = "Warning"

\* C13 witness: one sql pass has returned and published all three findings.
C13_Witness ==
    \E pass \in Range(passes) :
        /\ Findings(pass) = {"Missing", "Unused", "SQL file not found"}
        /\ sql_diagnostics = Some(pass.diagnostics)

\* the findings of a category held for the document by a collection entry
Category(entry, findings) ==
    IF isNil(entry) THEN <<>>
    ELSE Filter(Value(entry),
                {d \in Range(Value(entry)) : d.message.finding \in findings})

SqlTargetMissing(entry) == Category(entry, {"SQL file not found"})
FileBoundParameters(entry) == Category(entry, {"Missing", "Unused"})
InlineQueryParameters(entry) == Category(entry, {"Missing", "Unused"})

\* C14: the findings published for a document fall in three categories
\* (target missing, parameters of sql calls, parameters of query calls)
\* that are replaced independently: a step that replaces or clears the
\* findings of one category leaves those of the other two as they were.
C14_CategoriesReplacedIndependently ==
    [][LET target == SqlTargetMissing(sql_diagnostics) #
                         SqlTargetMissing(sql_diagnostics')
           file_bound == FileBoundParameters(sql_diagnostics) #
                             FileBoundParameters(sql_diagnostics')
           inline == InlineQueryParameters(query_diagnostics) #
                         InlineQueryParameters(query_diagnostics')
       IN  /\ target => ~file_bound /\ ~inline
           /\ file_bound => ~target /\ ~inline
           /\ inline => ~target /\ ~file_bound]_vars

\* the runs of one kind all read the same text and have all returned
SameTextThroughout(runs) ==
    \A p \in 1..Len(runs) :
        runs[p].doc = runs[1].doc /\ runs[p].pc = "returned"

C17_NothingExpectedNothingSupplied ==
    (/\ unit_pc = "done"
     /\ argument1 = ObjectLiteral(<<>>)
     /\ ~isNil(sql_source)
     /\ parseSql(Value(sql_source)).mapping = <<>>)
        => call_diagnostics = <<>>

\* C17 witness: the call with the empty literal and a resolved SQL text
\* without parameters has been reconciled and formatted.
C17_Witness ==
    /\ unit_pc = "done"
    /\ argument1 = ObjectLiteral(<<>>)
    /\ sql_source = Some(<<>>)
    /\ extra_check # Null
    /\ missing_check # Null

\* the difference a check computed, empty when the check did not run
Difference(check, field) == IF isNil(check) THEN <<>> ELSE Value(check)[field]

DiagnosticsOf(finding) ==
    Filter(call_diagnostics,
           {d \in Range(call_diagnostics) : d.message.finding = finding})

\* C18: a non-empty difference of a call yields exactly one diagnostic that
\* lists all its names in the order of the difference, and an empty
\* difference yields none; the message says 'parameter' exactly when one
\* name is listed and 'parameters' when two or more are.
C18_OneMessagePerDifference ==
    unit_pc = "done" =>
        LET missing == Difference(missing_check, "missing_properties")
            extra == Difference(extra_check, "extra_properties")
        IN  /\ Len(DiagnosticsOf("Missing")) = IF missing = <<>> THEN 0 ELSE 1
            /\ Len(DiagnosticsOf("Unused")) = IF extra = <<>> THEN 0 ELSE 1
            /\ \A d \in Range(DiagnosticsOf("Missing")) :
                  d.message.names = missing
            /\ \A d \in Range(DiagnosticsOf("Unused")) :
                  d.message.names = extra
            /\ \A d \in Range(DiagnosticsOf("Missing"))
                         \cup Range(DiagnosticsOf("Unused")) :
                  /\ d.range = ArgRange(1, 1)
                  /\ Len(d.message.names) = 1 => d.message.noun = "parameter"
                  /\ Len(d.message.names) >= 2 => d.message.noun = "parameters"

\* C18 witness: one call has been formatted into a message listing one
\* name and a message listing two names.
C18_Witness ==
    /\ unit_pc = "done"
    /\ \E d, e \in Range(call_diagnostics) :
          /\ Len(d.message.names) = 1 /\ d.message.noun = "parameter"
          /\ Len(e.message.names) = 2 /\ e.message.noun = "parameters"

\* the paths of all nodes of the tree
RECURSIVE Paths(_)
Paths(n) ==
    {<<>>} \cup UNION {{<<k>> \o q : q \in Paths(forEachChild(n)[k])} :
                          k \in 1..Len(forEachChild(n))}

RECURSIVE NodeAt(_, _)
NodeAt(n, path) ==
    IF path = <<>> THEN n ELSE NodeAt(forEachChild(n)[Head(path)], Tail(path))

\* a node is visited before its descendants and before the nodes that
\* follow it in source order
RECURSIVE PreOrderBefore(_, _)
PreOrderBefore(path, other) ==
    IF path = <<>> THEN other # <<>>
    ELSE /\ other # <<>>
         /\ \/ Head(path) < Head(other)
            \/ Head(path) = Head(other)
               /\ PreOrderBefore(Tail(path), Tail(other))

Qualifies(call_name, n) ==
    /\ n.kind = "CallExpression"
    /\ n.expression[1].kind = "PropertyAccessExpression"
    /\ n.expression[1].name = call_name
    /\ n.arguments # <<>>
    /\ n.arguments[1].kind \in {"StringLiteral", "NoSubstitutionTemplateLiteral"}

\* C16: findAllTinyCalls returns, in pre-order, exactly the call expressions
\* of the tree whose callee is a member access named call_name and whose
\* first argument is a string literal or a template without substitutions,
\* wherever in the tree they stand.
C16_ExactlyTheQualifyingCalls ==
    locator_pc \notin {"idle", "ready"} =>
        /\ locator_pc = "returned"
        /\ LET results == Value(matching_expressions)
           IN  /\ Range(results) =
                     {path \in Paths(source_file) :
                         Qualifies(target_name, NodeAt(source_file, path))}
               /\ \A i, j \in 1..Len(results) :
                     i < j => PreOrderBefore(results[i], results[j])

\* the locator is exact on the trees in which every call of the searched
\* name has an argument and a member access as its callee
LocatorExactOnWellFormedCalls ==
    (/\ locator_pc \notin {"idle", "ready"}
     /\ \A path \in Paths(source_file) :
           LET n == NodeAt(source_file, path)
           IN  NamedCall(target_name, n) =>
                   /\ n.arguments # <<>>
                   /\ n.expression[1].kind = "PropertyAccessExpression")
        => /\ locator_pc = "returned"
           /\ LET results == Value(matching_expressions)
              IN  /\ Range(results) =
                        {path \in Paths(source_file) :
                            Qualifies(target_name, NodeAt(source_file, path))}
                  /\ \A i, j \in 1..Len(results) :
                        i < j => PreOrderBefore(results[i], results[j])

\* the handler of the last event ran for a qualifying event and completed,
\* and every collection holds an entry for the document
HandledQualifyingEvent ==
    /\ ~isNil(event)
    /\ Value(event).qualifying
    /\ Value(event).pc = "fulfilled"
    /\ languageId = "typescript"
    /\ ~isNil(invalid_tiny_file_parameters)
    /\ ~isNil(missing_tiny_files)
    /\ ~isNil(invalid_tiny_query_parameters)

\* C19: when the handler of a qualifying event (opened, saved, changed in a
\* line matching an sql call) has completed, the three collections hold
\* for the document what the checks yield on its current text: the
\* parameter findings of sql calls, the missing targets and the parameter
\* findings of query calls.
C19_AllCategoriesReflectCurrentText ==
    HandledQualifyingEvent =>
        /\ invalid_tiny_file_parameters =
              Some(ext_checkForSqlBindings(text, workspace).diagnostics)
        /\ missing_tiny_files = Some(missingTinyFiles(text, workspace))
        /\ invalid_tiny_query_parameters =
              Some(ext_checkQueryBindings(text).diagnostics)

\* the run at position p of the sequence returns in this step
ReturnsNow(runs, runs_after, p) ==
    /\ runs_after[p].pc = "returned"
    /\ p > Len(runs) \/ runs[p].pc # "returned"

\* C20: publishing replaces and is per document: in the step in which a
\* pass over a document returns, the entry of that document in the
\* collection of the pass becomes exactly the diagnostics of that pass;
\* no step of a pass over one document, failing or not, changes an entry
\* of the other document.
C20_ReplacedPerDocument ==
    [][/\ \A p \in 1..Len(passes') :
             ReturnsNow(passes, passes', p)
                 => sql_diagnostics' = Some(passes'[p].diagnostics)
       /\ \A p \in 1..Len(query_runs') :
             ReturnsNow(query_runs, query_runs', p)
                 => query_diagnostics' = Some(query_runs'[p].diagnostics)
       /\ (passes' # passes \/ query_runs' # query_runs)
             => /\ other_sql_diagnostics' = other_sql_diagnostics
                /\ other_query_diagnostics' = other_query_diagnostics
       /\ other_run' # other_run
             => /\ sql_diagnostics' = sql_diagnostics
                /\ query_diagnostics' = query_diagnostics
                /\ Value(other_run').sql.pc = "returned"
                      => other_sql_diagnostics' =
                             Some(Value(other_run').sql.diagnostics)
                /\ Value(other_run').query.pc = "returned"
                      => other_query_diagnostics' =
                             Some(Value(other_run').query.diagnostics)
                /\ Value(other_run').query.pc = "rejected"
                      => other_query_diagnostics' = other_query_diagnostics
      ]_vars

\* C20 witness: two passes over different texts of the first document have
\* returned and its entry holds the result of the second alone, while the
\* second document keeps an entry with a finding of its own.
C20_Witness ==
    /\ Len(passes) = 2
    /\ passes[1].pc = "returned" /\ passes[2].pc = "returned"
    /\ passes[1].diagnostics # <<>>
    /\ passes[2].diagnostics = <<>>
    /\ sql_diagnostics = Some(<<>>)
    /\ ~isNil(other_query_diagnostics)
    /\ Value(other_query_diagnostics) # <<>>

\* the diagnostics an entry of a collection publishes (none without an entry)
PublishedIn(entry) == IF isNil(entry) THEN <<>> ELSE Value(entry)

\* C21: after a document is closed, no diagnostics of the engine remain
\* published for it: each of its entries in the collections is cleared.
C21_ClearedOnClose ==
    isClosed =>
        /\ PublishedIn(invalid_tiny_file_parameters) = <<>>
        /\ PublishedIn(invalid_tiny_query_parameters) = <<>>
        /\ PublishedIn(missing_tiny_files) = <<>>

\* the run at position p of the sequence comes to its end in this step
EndsNow(runs, runs_after, p) ==
    /\ runs_after[p].pc # "awaiting"
    /\ p > Len(runs) \/ runs[p].pc = "awaiting"

\* the gate of a pass over  doc  is open
GateOpen(doc, RegexTest(_)) == languageId = "typescript" \/ RegexTest(doc)

\* C22: a pass over a typescript document, or over a text its regular
\* expression matches, analyses the document and sets the document's entry
\* in its collection; a pass over any other document returns without
\* touching its collection, the entry staying as it was.
C22_GateDecidesWhetherEntryIsSet ==
    [][/\ \A p \in 1..Len(passes') :
             EndsNow(passes, passes', p) =>
                IF GateOpen(passes'[p].doc, SqlCallRegexTest)
                THEN sql_diagnostics' = Some(passes'[p].diagnostics)
                ELSE /\ passes'[p].pc = "gated"
                     /\ sql_diagnostics' = sql_diagnostics
       /\ \A p \in 1..Len(query_runs') :
             EndsNow(query_runs, query_runs', p) =>
                IF GateOpen(query_runs'[p].doc, QueryCallRegexTest)
                THEN query_diagnostics' = Some(query_runs'[p].diagnostics)
                ELSE /\ query_runs'[p].pc = "gated"
                     /\ query_diagnostics' = query_diagnostics]_vars

\* the gate alone: a pass is turned away exactly when the language is not
\* typescript and the text does not match, a pass turned away leaves the
\* entry as it was, and a pass let through sets the entry unless it throws
GateDecidesForPassesThatReturn ==
    [][/\ \A p \in 1..Len(passes') :
             EndsNow(passes, passes', p) =>
                IF GateOpen(passes'[p].doc, SqlCallRegexTest)
                THEN \/ passes'[p].pc = "rejected"
                     \/ /\ passes'[p].pc = "returned"
                        /\ sql_diagnostics' = Some(passes'[p].diagnostics)
                ELSE /\ passes'[p].pc = "gated"
                     /\ sql_diagnostics' = sql_diagnostics
       /\ \A p \in 1..Len(query_runs') :
             EndsNow(query_runs, query_runs', p) =>
                IF GateOpen(query_runs'[p].doc, QueryCallRegexTest)
                THEN \/ query_runs'[p].pc = "rejected"
                     \/ /\ query_runs'[p].pc = "returned"
                        /\ query_diagnostics' =
                              Some(query_runs'[p].diagnostics)
                ELSE /\ query_runs'[p].pc = "gated"
                     /\ query_diagnostics' = query_diagnostics]_vars

\* a pass turned away has left diagnostics of an earlier text published
StaleEntryAfterGatedPass ==
    /\ query_runs # <<>>
    /\ query_runs[Len(query_runs)].pc = "gated"
    /\ text = <<>>
    /\ ~isNil(query_diagnostics)
    /\ Value(query_diagnostics) # <<>>
====
